---- MODULE Spec2Model ----
(***************************************************************************)
(* Model of stimulus/generators/r.py: the three GNU R code generators      *)
(* (RRCodeGenerator, RCCodeGenerator, RInitCodeGenerator).                 *)
(*                                                                         *)
(* Text is a sequence of strings.  Everything the code inspects or         *)
(* rewrites (names, templates, default literals, attribute strings) is     *)
(* spelled one character per element, so that str.replace, the `in`        *)
(* substring test, str.split, str.strip, re.search and re.sub are computed *)
(* on characters as Python computes them.  The fixed text a generator      *)
(* writes around these (", ", "SEXP ", " <- function(", ...) is never      *)
(* inspected by the code and is kept as one element per literal.           *)
(***************************************************************************)
EXTENDS Integers, Sequences, FiniteSets, TLC

\* ---------------------------------------------------------------- bounds
MaxParams == 2

MaxDeps == 2

MaxCalls == 2

\* ------------------------------------------------------- Python built-ins
None == "<None>"

DecimalDigits == <<"0", "1", "2", "3", "4", "5", "6", "7", "8", "9">>

IsDigit(c) == \E k \in 1..Len(DecimalDigits) : DecimalDigits[k] = c

\* str(n) for a non-negative int
RECURSIVE str(_)
str(n) ==
    IF n < 10 THEN <<DecimalDigits[n + 1]>>
    ELSE str(n \div 10) \o <<DecimalDigits[(n % 10) + 1]>>

startswith(s, p) == Len(p) <= Len(s) /\ SubSeq(s, 1, Len(p)) = p

\* `sub in s` for two strings
contains(s, sub) ==
    \E i \in 0..(Len(s) - Len(sub)) : SubSeq(s, i + 1, i + Len(sub)) = sub

\* s.replace(old, new), old non-empty: leftmost non-overlapping occurrences
RECURSIVE replace(_, _, _)
replace(s, old, new) ==
    IF Len(s) < Len(old) THEN s
    ELSE IF startswith(s, old)
         THEN new \o replace(SubSeq(s, Len(old) + 1, Len(s)), old, new)
         ELSE <<Head(s)>> \o replace(Tail(s), old, new)

\* sep.join(parts); sep is a piece of text
RECURSIVE join(_, _)
join(sep, parts) ==
    IF parts = <<>> THEN <<>>
    ELSE IF Len(parts) = 1 THEN parts[1]
    ELSE parts[1] \o sep \o join(sep, Tail(parts))

\* s.split(sep): every piece; s.split(sep, 1): at most one cut
RECURSIVE split(_, _, _)
split(s, sep, maxsplit) ==
    LET hits == {i \in 0..(Len(s) - Len(sep)) : SubSeq(s, i + 1, i + Len(sep)) = sep}
    IN  IF hits = {} \/ maxsplit = 0 THEN <<s>>
        ELSE LET i == CHOOSE h \in hits : \A g \in hits : h <= g
             IN  <<SubSeq(s, 1, i)>>
                 \o split(SubSeq(s, i + Len(sep) + 1, Len(s)), sep, maxsplit - 1)

\* s.strip()
RECURSIVE strip(_)
strip(s) ==
    IF s = <<>> THEN s
    ELSE IF Head(s) = " " THEN strip(Tail(s))
    ELSE IF s[Len(s)] = " " THEN strip(SubSeq(s, 1, Len(s) - 1))
    ELSE s

\* the length of the match of  %<letter>[0-9]{min,}%  starting at s[1], 0 if none
RECURSIVE digitRun(_, _)
digitRun(s, i) == IF i <= Len(s) /\ IsDigit(s[i]) THEN digitRun(s, i + 1) ELSE i

matchAt(s, letter, min) ==
    IF Len(s) >= 2 /\ s[1] = "%" /\ s[2] = letter
    THEN LET j == digitRun(s, 3)
         IN  IF j <= Len(s) /\ s[j] = "%" /\ j - 3 >= min THEN j ELSE 0
    ELSE 0

\* re.search("%I[0-9]*%", s) is not None
re_search(s) ==
    \E i \in 1..Len(s) : matchAt(SubSeq(s, i, Len(s)), "I", 0) > 0

\* re.sub("%I[0-9]+%", "", s)
RECURSIVE re_sub(_)
re_sub(s) ==
    IF s = <<>> THEN s
    ELSE LET j == matchAt(s, "I", 1)
         IN  IF j > 0 THEN re_sub(SubSeq(s, j + 1, Len(s)))
             ELSE <<Head(s)>> \o re_sub(Tail(s))

\* [x for x in xs if x != ""]
RECURSIVE nonEmpty(_)
nonEmpty(xs) ==
    IF xs = <<>> THEN <<>>
    ELSE IF Head(xs) = <<>> THEN nonEmpty(Tail(xs))
    ELSE <<Head(xs)>> \o nonEmpty(Tail(xs))

\* name.replace("_", ".")
dotted(name) == replace(name, <<"_">>, <<".">>)

\* ------------------------------------------------------------ the inputs
\* ParamMode and ParamSpec.mode_str / is_input / is_output
Modes == {"IN", "OUT", "INOUT"}

mode_str(mode) ==
    CASE mode = "IN" -> <<"I", "N">>
      [] mode = "OUT" -> <<"O", "U", "T">>
      [] OTHER -> <<"I", "N", "O", "U", "T">>

is_input(param) == param.mode \in {"IN", "INOUT"}

is_output(param) == param.mode \in {"OUT", "INOUT"}

\* A rule of a type is a str or a dict keyed by mode
Str(s) == [kind |-> "str", s |-> s, d |-> <<>>]

Dict(d) == [kind |-> "dict", s |-> <<>>, d |-> d]

NoRules == [k \in {} |-> Str(<<>>)]

\* the placeholders
pI == <<"%", "I", "%">>

pC == <<"%", "C", "%">>

\* templates of the type table
tCheck == <<"f", "(", "%", "I", "%", ")">>

tConv == <<"%", "C", "%", "=", "%", "I", "%", ";">>

tInit == <<"%", "C", "%", "=", "0", ";">>

tBack == <<"%", "I", "%", "=", "h", "(", "%", "C", "%", ")">>

tRef == <<"&", "%", "C", "%">>

tVal == <<"%", "C", "%">>

tInt == <<"I", "N", "T", "(", "%", "I", "%", ")">>

tDeps == <<"%", "I", "1", "%", " ", "a", "n", "d", " ", "%", "C", "2", "%">>

tHeadDep == <<"%", "I", "%", "=", "%", "I", "1", "%">>

tZero == <<"0">>

\* The type rule table the generators are constructed with.  HEADER is a str
\* wherever it is given; INCONV, CALL and OUTCONV are a str or keyed by mode;
\* DEFAULT maps the default values of the function file to literals.
TypeTable ==
    [ PLAIN |-> NoRules,
      VECTOR |-> [ INCONV |-> Dict([IN |-> tConv, OUT |-> tInit, INOUT |-> tConv]),
                   CALL |-> Dict([IN |-> tVal, OUT |-> tRef, INOUT |-> tRef]),
                   OUTCONV |-> Dict([OUT |-> tBack, INOUT |-> tBack]) ],
      REAL |-> [ INCONV |-> Str(tCheck),
                 CALL |-> Str(tRef),
                 OUTCONV |-> Str(tBack) ],
      INT |-> [ INCONV |-> Str(tInt),
                DEFAULT |-> Dict([ONE |-> <<"1", "L">>]) ],
      DEPS |-> [ HEADER |-> Str(tHeadDep),
                 INCONV |-> Dict([IN |-> tDeps, OUT |-> tDeps, INOUT |-> tDeps]),
                 OUTCONV |-> Dict([IN |-> tDeps, OUT |-> tDeps, INOUT |-> tDeps]) ],
      HIDDEN |-> [ HEADER |-> Str(<<>>),
                   DEFAULT |-> Dict([ONE |-> <<"1", "L">>]) ],
      NULL |-> [ HEADER |-> Str(<<>>),
                 CALL |-> Str(tZero) ],
      NOCALL |-> [ CALL |-> Str(<<>>) ],
      PARTIAL |-> [ INCONV |-> Dict([OUT |-> tInit]),
                    CALL |-> Dict([IN |-> <<>>, OUT |-> tRef]),
                    OUTCONV |-> Dict([OUT |-> tBack]) ] ]

TypeNames == DOMAIN TypeTable

get_type_descriptor(tname) == TypeTable[tname]

\* TypeDescriptor.translate_default_value: the literal the type's DEFAULT
\* mapping gives for the value, nothing when it gives none
translate_default_value(type_desc, value) ==
    IF "DEFAULT" \in DOMAIN type_desc /\ value \in DOMAIN type_desc["DEFAULT"].d
    THEN type_desc["DEFAULT"].d[value]
    ELSE <<>>

\* FunctionDescriptor.get_name_in_generated_code: the function's own name
\* unless the descriptor renames it for the language
get_name_in_generated_code(spec) ==
    IF spec.rename # None THEN spec.rename ELSE spec.name

\* ----------------------------------------------------- shared fragments
\* for i, dep in enumerate(param.dependencies):
\*     s = s.replace("%<letter>" + str(i + 1) + "%", prefix + dep)
RECURSIVE substDeps(_, _, _, _, _)
substDeps(s, letter, prefix, deps, i) ==
    IF i > Len(deps) THEN s
    ELSE substDeps(replace(s, <<"%", letter>> \o str(i) \o <<"%">>, prefix \o deps[i]),
                   letter, prefix, deps, i + 1)

\* the outcome of one parameter's fragment: ok is FALSE when Python raises
Frag(text, log) == [ok |-> TRUE, text |-> text, log |-> log]

Raise == [ok |-> FALSE, text |-> <<>>, log |-> <<>>]

\* `mode in rule`: a key of a dict, a substring of a str
modeIn(mode, rule) ==
    IF rule.kind = "dict" THEN mode \in DOMAIN rule.d
    ELSE contains(rule.s, mode_str(mode))

\* a list comprehension over fragments: it stops at the first that raises
firstRaise(frags) ==
    IF \A i \in 1..Len(frags) : frags[i].ok THEN Len(frags) + 1
    ELSE CHOOSE i \in 1..Len(frags) :
             ~frags[i].ok /\ \A j \in 1..(i - 1) : frags[j].ok

RECURSIVE logsUpTo(_, _)
logsUpTo(frags, n) ==
    IF n = 0 THEN <<>> ELSE logsUpTo(frags, n - 1) \o frags[n].log

comprehension(frags) ==
    LET n == firstRaise(frags)
    IN  [ok |-> n > Len(frags),
         texts |-> [i \in 1..Len(frags) |-> frags[i].text],
         log |-> logsUpTo(frags, n - 1)]

\* [x for x in xs if keep(x)]
RECURSIVE inputsOf(_)
inputsOf(params) ==
    IF params = <<>> THEN <<>>
    ELSE IF is_input(Head(params)) THEN <<Head(params)>> \o inputsOf(Tail(params))
    ELSE inputsOf(Tail(params))

RECURSIVE retparsOf(_)
retparsOf(params) ==
    IF params = <<>> THEN <<>>
    ELSE IF is_output(Head(params)) THEN <<Head(params).name>> \o retparsOf(Tail(params))
    ELSE retparsOf(Tail(params))

\* the fields of a "Missing <phase> dependency for <type> <param> in function
\* <name>" message
Diagnostic(phase, tname, pname, fname) ==
    [phase |-> phase, tname |-> tname, pname |-> pname, fname |-> fname]

\* --------------------------------------------------------- RRCodeGenerator
handle_input_argument(param, name) ==
    LET tname == param.type
        type_desc == get_type_descriptor(tname)
        header0 == IF "HEADER" \in DOMAIN type_desc
                   THEN type_desc["HEADER"].s
                   ELSE dotted(param.name)
        header1 == IF header0 # <<>>
                   THEN replace(header0, pI, dotted(param.name))
                   ELSE <<>>
        default == IF param.default # None
                   THEN translate_default_value(type_desc, param.default)
                   ELSE <<>>
        header2 == IF default # <<>> THEN header1 \o <<"=">> \o default ELSE header1
        header3 == substDeps(header2, "I", <<>>, param.dependencies, 1)
    IN  Frag(header3,
             IF re_search(header3)
             THEN <<Diagnostic("HEADER", tname, param.name, name)>>
             ELSE <<>>)

handle_argument_check(param, name) ==
    LET tname == param.type
        t == get_type_descriptor(tname)
        mode == param.mode
        selected == is_input(param) /\ "INCONV" \in DOMAIN t
        keyed == selected /\ modeIn(mode, t["INCONV"])
        res0 == IF ~selected THEN <<>>
                ELSE IF keyed THEN <<" ", " ">> \o t["INCONV"].d[mode]
                ELSE <<" ", " ">> \o t["INCONV"].s
        res1 == replace(res0, pI, dotted(param.name))
        res2 == substDeps(res1, "I", <<>>, param.dependencies, 1)
    IN  IF selected /\ keyed /\ t["INCONV"].kind = "str" THEN Raise
        ELSE IF selected /\ ~keyed /\ t["INCONV"].kind = "dict" THEN Raise
        ELSE Frag(res2,
                  IF re_search(res2)
                  THEN <<Diagnostic("IN", tname, param.name, name)>>
                  ELSE <<>>)

\* one turn of the loop that builds the .Call arguments
callPart(param) ==
    LET type == get_type_descriptor(param.type)
        name == dotted(param.name)
        call == IF "CALL" \in DOMAIN type THEN type["CALL"] ELSE Str(name)
    IN  IF call.kind = "dict"
        THEN (IF DOMAIN call.d = {} THEN Frag(<<>>, <<>>) ELSE Raise)
        ELSE Frag(replace(call.s, pI, name), <<>>)

\* the value of `name` after the loop: it is assigned in every turn that
\* handles an input parameter
nameAfterCall(spec, name) ==
    LET ins == inputsOf(spec.params)
    IN  IF ins = <<>> THEN name ELSE dotted(ins[Len(ins)].name)

handle_output_argument(param, realname, iprefix, name) ==
    LET tname == param.type
        t == get_type_descriptor(tname)
        mode == param.mode
        selected == "OUTCONV" \in DOMAIN t /\ modeIn(mode, t["OUTCONV"])
        outconv0 == IF selected THEN <<" ", " ">> \o t["OUTCONV"].d[mode] ELSE <<>>
        outconv1 == replace(outconv0, pI, iprefix \o realname)
        outconv2 == substDeps(outconv1, "I", <<>>, param.dependencies, 1)
    IN  IF selected /\ t["OUTCONV"].kind = "str" THEN Raise
        ELSE Frag(re_sub(outconv2),
                  IF re_search(outconv2)
                  THEN <<Diagnostic("OUT", tname, param.name, name)>>
                  ELSE <<>>)

\* lines 185-192: the output conversion of every parameter
outputStage(spec, retpars, name) ==
    comprehension(
        [i \in 1..Len(spec.params) |->
            IF Len(retpars) <= 1
            THEN handle_output_argument(spec.params[i], <<"r", "e", "s">>, <<>>, name)
            ELSE handle_output_argument(spec.params[i], spec.params[i].name,
                                        <<"r", "e", "s", "$">>, name)])

\* lines 194-212: the text written for the output conversions
outputReturn(retpars, outF, rt) ==
    LET outconv == nonEmpty(outF.texts)
        rtRaises == /\ Len(retpars) = 0
                    /\ "OUTCONV" \in DOMAIN rt
                    /\ \/ rt["OUTCONV"].kind = "str"
                       \/ "OUT" \notin DOMAIN rt["OUTCONV"].d
        retconv == IF "OUTCONV" \in DOMAIN rt
                   THEN replace(<<" ", " ">> \o rt["OUTCONV"].d["OUT"], pI, <<"r", "e", "s">>)
                   ELSE <<>>
    IN  IF ~outF.ok \/ rtRaises THEN [ok |-> FALSE, text |-> <<>>, log |-> outF.log]
        ELSE IF Len(retpars) = 0
        THEN [ok |-> TRUE, log |-> outF.log,
              text |-> join(<<"\n">>, outconv) \o <<"\n">> \o retconv \o <<"\n">>]
        ELSE [ok |-> TRUE, log |-> outF.log,
              text |-> join(<<"\n">>, outconv) \o <<"\n">>]

\* the output conversions and the value returned (lines 182-212)
outputConversions(spec, name) ==
    outputReturn(retparsOf(spec.params),
                 outputStage(spec, retparsOf(spec.params), name),
                 get_type_descriptor(spec.return_type))

\* the legacy "GATTR-R", "GATTR-PARAM-R", "CLASS-R" and "PP-R" keys of a
\* descriptor, as the namespace they are converted to (lines 217-221)
LegacyKeys ==
    ("GATTR" :> "GATTR-R") @@ ("GATTR-PARAM" :> "GATTR-PARAM-R")
    @@ ("CLASS" :> "CLASS-R") @@ ("PP" :> "PP-R")

legacyNamespace(obj) ==
    LET keys == {k \in DOMAIN LegacyKeys : LegacyKeys[k] \in DOMAIN obj}
    IN  [k \in keys |-> obj[LegacyKeys[k]]]

\* lines 215-223: the descriptor after the conversion
installNamespace(obj) ==
    IF "R" \notin DOMAIN obj /\ DOMAIN legacyNamespace(obj) # {}
    THEN [k \in DOMAIN obj \cup {"R"} |->
             IF k = "R" THEN legacyNamespace(obj) ELSE obj[k]]
    ELSE obj

\* r_specOf reading the namespace before the legacy keys are converted
r_specOfStale(obj) ==
    IF "R" \in DOMAIN obj THEN obj["R"] ELSE [k \in {} |-> <<>>]

\* line 225: r_spec = spec._obj.get("R", {})
r_specOf(obj) ==
    LET installed == installNamespace(obj)
    IN  IF "R" \in DOMAIN installed THEN installed["R"] ELSE [k \in {} |-> <<>>]

\* gattrs_dict[name] = value on an insertion-ordered dict
dictSet(pairs, k, v) ==
    IF \E i \in 1..Len(pairs) : pairs[i][1] = k
    THEN [i \in 1..Len(pairs) |-> IF pairs[i][1] = k THEN <<k, v>> ELSE pairs[i]]
    ELSE Append(pairs, <<k, v>>)

RECURSIVE gattrsFromItems(_, _)
gattrsFromItems(items, acc) ==
    IF items = <<>> THEN acc
    ELSE LET nv == split(Head(items), <<" ", "I", "S", " ">>, 1)
         IN  gattrsFromItems(Tail(items), dictSet(acc, strip(nv[1]), strip(nv[2])))

\* lines 229-246, for the value of r_spec["GATTR"]
gattrLines(gattrs) ==
    LET items == split(gattrs.s, <<",">>, -1)
        unpackRaises == /\ gattrs.kind = "str"
                        /\ \E i \in 1..Len(items) :
                               Len(split(items[i], <<" ", "I", "S", " ">>, 1)) # 2
        gattrs_dict == IF gattrs.kind = "dict" THEN gattrs.d
                       ELSE gattrsFromItems(items, <<>>)
        lines == [i \in 1..Len(gattrs_dict) |->
                     <<"  res <- set.graph.attribute(res, '">> \o gattrs_dict[i][1]
                     \o <<"', '">> \o gattrs_dict[i][2] \o <<"')">>]
    IN  IF unpackRaises THEN [ok |-> FALSE, text |-> <<>>]
        ELSE IF gattrs_dict = <<>> THEN [ok |-> TRUE, text |-> <<>>]
        ELSE [ok |-> TRUE, text |-> join(<<"\n">>, lines) \o <<"\n">>]

\* lines 228-246
graphAttributes(r_spec) ==
    IF "GATTR" \notin DOMAIN r_spec THEN [ok |-> TRUE, text |-> <<>>]
    ELSE gattrLines(r_spec["GATTR"])

\* lines 249-254
RECURSIVE paramAttributes(_)
paramAttributes(pars) ==
    IF pars = <<>> THEN <<>>
    ELSE LET p == dotted(strip(Head(pars)))
         IN  <<"  res <- set.graph.attribute(res, '">> \o p \o <<"', ">> \o p \o <<")\n">>
             \o paramAttributes(Tail(pars))

\* lines 249-264
postlude(r_spec) ==
    (IF "GATTR-PARAM" \in DOMAIN r_spec
     THEN paramAttributes(split(r_spec["GATTR-PARAM"], <<",">>, -1))
     ELSE <<>>)
    \o (IF "CLASS" \in DOMAIN r_spec
        THEN <<"  class(res) <- \"">> \o r_spec["CLASS"] \o <<"\"\n">>
        ELSE <<>>)
    \o (IF "PP" \in DOMAIN r_spec
        THEN <<"  res <- ">> \o r_spec["PP"] \o <<"(res)\n">>
        ELSE <<>>)
    \o <<"  res\n}\n\n">>

\* lines 80-84, 123, 141-148: the fragments of the header, of the argument
\* checks and of the .Call arguments
headerStage(ins, name) ==
    comprehension([i \in 1..Len(ins) |-> handle_input_argument(ins[i], name)])

checkStage(params, name) ==
    comprehension([i \in 1..Len(params) |-> handle_argument_check(params[i], name)])

callStage(ins) == comprehension([i \in 1..Len(ins) |-> callPart(ins[i])])

\* what generate_function has written and logged when it is left, by the
\* stage that raises, if one does
RRcompose(function, spec, name, headF, incF, callF, outR, attrs, tail, obj2) ==
    LET w1 == (IF ~spec.is_internal THEN <<"#' @export\n">> ELSE <<>>)
              \o name \o <<" <- function(">>
              \o join(<<", ">>, nonEmpty(headF.texts))
              \o <<") {\n", "  # Argument checks\n">>
        w2 == join(<<"\n">>, nonEmpty(incF.texts)) \o <<"\n\n">>
              \o <<"  on.exit( .Call(C_R_igraph_finalizer) )\n", "  # Function call\n",
                   "  res <- .Call(C_R_">> \o function \o <<", ">>
        w3 == join(<<", ">>, nonEmpty(callF.texts)) \o <<")\n">>
        Left(ok, out, log, obj) == [ok |-> ok, out |-> out, log |-> log, obj |-> obj]
    IN  IF ~incF.ok THEN Left(FALSE, w1, headF.log \o incF.log, spec.obj)
        ELSE IF ~callF.ok
        THEN Left(FALSE, w1 \o w2, headF.log \o incF.log, spec.obj)
        ELSE IF ~outR.ok
        THEN Left(FALSE, w1 \o w2 \o w3, headF.log \o incF.log \o outR.log, spec.obj)
        ELSE IF ~attrs.ok
        THEN Left(FALSE, w1 \o w2 \o w3 \o outR.text,
                  headF.log \o incF.log \o outR.log, obj2)
        ELSE Left(TRUE, w1 \o w2 \o w3 \o outR.text \o attrs.text \o tail,
                  headF.log \o incF.log \o outR.log, obj2)

RRgenerate_named(function, spec, name) ==
    RRcompose(function, spec, name,
              headerStage(inputsOf(spec.params), name),
              checkStage(spec.params, name),
              callStage(inputsOf(spec.params)),
              outputConversions(spec, nameAfterCall(spec, name)),
              graphAttributes(r_specOf(spec.obj)),
              postlude(r_specOf(spec.obj)),
              installNamespace(spec.obj))

\* RRCodeGenerator.generate_function: what it writes, what it logs, whether it
\* returns (ok) or raises, and the descriptor's _obj when it is left
RRgenerate_function(function, spec) ==
    RRgenerate_named(function, spec, get_name_in_generated_code(spec))

\* --------------------------------------------------------- RCCodeGenerator
c_(name) == <<"c", "_">> \o name

\* TypeDescriptor.declare_c_variable: the type's DECL template for the mode
\* with %C% resolved, else "<CTYPE> <name>;", else nothing
declare_c_variable(type_desc, name, mode) ==
    IF "DECL" \in DOMAIN type_desc
    THEN LET decl == type_desc["DECL"]
         IN  IF decl.kind = "str" THEN replace(decl.s, pC, name)
             ELSE IF mode \in DOMAIN decl.d THEN replace(decl.d[mode], pC, name)
             ELSE <<>>
    ELSE IF "CTYPE" \in DOMAIN type_desc
    THEN type_desc["CTYPE"].s \o <<" ">> \o name \o <<";">>
    ELSE <<>>

\* chunk_header.do_par
headerPar(spec) ==
    LET t == get_type_descriptor(spec.type)
    IN  IF "HEADER" \in DOMAIN t
        THEN (IF t["HEADER"].s # <<>> THEN replace(t["HEADER"].s, pI, spec.name) ELSE <<>>)
        ELSE spec.name

\* the SEXP parameters of the signature chunk_header emits
headerArguments(desc) ==
    LET ins == inputsOf(desc.params)
        inout == nonEmpty([i \in 1..Len(ins) |-> headerPar(ins[i])])
    IN  [i \in 1..Len(inout) |-> <<"SEXP ">> \o inout[i]]

chunk_header(desc) ==
    <<"SEXP R_">> \o desc.name \o <<"(">>
    \o join(<<", ">>, headerArguments(desc)) \o <<")">>

\* textwrap.indent(text, "  ") on the lines that are joined into text
isBlank(line) == \A i \in 1..Len(line) : line[i] = " "

indent(lines) ==
    [i \in 1..Len(lines) |-> IF isBlank(lines[i]) THEN lines[i] ELSE <<"  ">> \o lines[i]]

RECURSIVE outDeclarations(_)
outDeclarations(params) ==
    IF params = <<>> THEN <<>>
    ELSE (IF Head(params).mode = "OUT"
          THEN << <<"SEXP ">> \o Head(params).name \o <<";">> >>
          ELSE <<>>)
         \o outDeclarations(Tail(params))

chunk_declaration(desc) ==
    LET params == desc.params
        inout == [i \in 1..Len(params) |->
                     declare_c_variable(get_type_descriptor(params[i].type),
                                        c_(params[i].name), params[i].mode)]
        retpars == retparsOf(params)
        retdecl == IF retpars = <<>>
                   THEN declare_c_variable(get_type_descriptor(desc.return_type),
                                           c_(<<"r", "e", "s", "u", "l", "t">>), "OUT")
                   ELSE <<>>
        last == IF Len(retpars) <= 1 THEN <<"SEXP result;">> ELSE <<"SEXP result, names;">>
    IN  join(<<"\n">>, indent(inout \o outDeclarations(params) \o <<retdecl, last>>))

\* chunk_inconv.do_par
inconvPar(param) ==
    LET cname == c_(param.name)
        t == get_type_descriptor(param.type)
        mode == param.mode
        selected == "INCONV" \in DOMAIN t /\ modeIn(mode, t["INCONV"])
        inconv0 == IF selected THEN <<" ", " ">> \o t["INCONV"].d[mode] ELSE <<>>
        inconv1 == substDeps(inconv0, "C", <<"c", "_">>, param.dependencies, 1)
    IN  IF selected /\ t["INCONV"].kind = "str" THEN Raise
        ELSE Frag(replace(replace(inconv1, pC, cname), pI, param.name), <<>>)

inconvJoin(F) == [ok |-> F.ok, text |-> join(<<"\n">>, nonEmpty(F.texts))]

chunk_inconv(desc) ==
    inconvJoin(comprehension([i \in 1..Len(desc.params) |-> inconvPar(desc.params[i])]))

\* callArgument with an empty CALL rule taken for a missing one
\* (`get("CALL") or default`)
callArgumentOrDefault(param) ==
    LET t == get_type_descriptor(param.type)
        given == IF "CALL" \in DOMAIN t THEN t["CALL"] ELSE Str(<<>>)
        type == IF given = Str(<<>>) THEN Str(c_(param.name)) ELSE given
        call == IF type.kind = "dict"
                THEN (IF param.mode \in DOMAIN type.d THEN type.d[param.mode] ELSE <<>>)
                ELSE type.s
    IN  IF call # <<>>
        THEN replace(replace(call, pC, c_(param.name)), pI, param.name)
        ELSE <<>>

\* one turn of chunk_call's loop: the argument the parameter contributes
callArgument(param) ==
    LET t == get_type_descriptor(param.type)
        type == IF "CALL" \in DOMAIN t THEN t["CALL"] ELSE Str(c_(param.name))
        call == IF type.kind = "dict"
                THEN (IF param.mode \in DOMAIN type.d THEN type.d[param.mode] ELSE <<>>)
                ELSE type.s
    IN  IF call # <<>>
        THEN replace(replace(call, pC, c_(param.name)), pI, param.name)
        ELSE <<>>

callArguments(desc) ==
    nonEmpty([i \in 1..Len(desc.params) |-> callArgument(desc.params[i])])

chunk_call(desc) ==
    LET res == <<"  ">> \o desc.name \o <<"(">>
               \o join(<<", ">>, callArguments(desc)) \o <<");\n">>
    IN  IF retparsOf(desc.params) = <<>> THEN <<"  c_result=">> \o res ELSE res

\* chunk_outconv.do_par
outconvPar(param) ==
    LET cname == c_(param.name)
        t == get_type_descriptor(param.type)
        mode == param.mode
        selected == "OUTCONV" \in DOMAIN t /\ modeIn(mode, t["OUTCONV"])
        outconv0 == IF selected THEN <<" ", " ">> \o t["OUTCONV"].d[mode] ELSE <<>>
        outconv1 == substDeps(outconv0, "C", <<"c", "_">>, param.dependencies, 1)
    IN  IF selected /\ t["OUTCONV"].kind = "str" THEN Raise
        ELSE Frag(replace(replace(outconv1, pC, cname), pI, param.name), <<>>)

\* resultSets numbering the slots from 1 (`enumerate(retpars, 1)`)
resultSetsFromOne(retpars) ==
    [i \in 1..Len(retpars) |->
        <<"  SET_VECTOR_ELT(result, ">> \o str(i) \o <<", ">> \o retpars[i] \o <<");">>]

\* lines 476-483: the statements that fill the result list and its names
resultSets(retpars) ==
    [i \in 1..Len(retpars) |->
        <<"  SET_VECTOR_ELT(result, ">> \o str(i - 1) \o <<", ">> \o retpars[i] \o <<");">>]

resultNames(retpars) ==
    [i \in 1..Len(retpars) |->
        <<"  SET_STRING_ELT(names, ">> \o str(i - 1)
        \o <<", CREATE_STRING_VECTOR(\"">> \o retpars[i] \o <<"\"));">>]

\* lines 484-493: the lines of the named list
resultList(retpars, outconv) ==
    << <<"  PROTECT(result=NEW_LIST(">> \o str(Len(retpars)) \o <<"));">>,
       <<"  PROTECT(names=NEW_CHARACTER(">> \o str(Len(retpars)) \o <<"));">> >>
    \o outconv \o resultSets(retpars) \o resultNames(retpars)
    \o << <<"  SET_NAMES(result, names);">>,
          <<"  UNPROTECT(">> \o str(Len(resultSets(retpars)) + 1) \o <<");">> >>

outconvReturn(retpars, F, rt) ==
    LET outconv == nonEmpty(F.texts)
        rtRaises == /\ retpars = <<>>
                    /\ "OUTCONV" \in DOMAIN rt
                    /\ \/ rt["OUTCONV"].kind = "str"
                       \/ "OUT" \notin DOMAIN rt["OUTCONV"].d
        retconv == IF "OUTCONV" \in DOMAIN rt
                   THEN replace(replace(<<" ", " ">> \o rt["OUTCONV"].d["OUT"], pC,
                                        c_(<<"r", "e", "s", "u", "l", "t">>)),
                                pI, <<"r", "e", "s", "u", "l", "t">>)
                   ELSE <<>>
    IN  IF ~F.ok \/ rtRaises THEN [ok |-> FALSE, text |-> <<>>]
        ELSE IF retpars = <<>>
        THEN [ok |-> TRUE, text |-> join(<<"\n">>, outconv) \o <<"\n">> \o retconv]
        ELSE IF Len(retpars) = 1
        THEN [ok |-> TRUE,
              text |-> join(<<"\n">>, outconv) \o <<"\n">> \o <<"  result=">>
                       \o retpars[1] \o <<";">>]
        ELSE [ok |-> TRUE, text |-> join(<<"\n">>, resultList(retpars, outconv))]

chunk_outconv(spec) ==
    outconvReturn(retparsOf(spec.params),
                  comprehension([i \in 1..Len(spec.params) |-> outconvPar(spec.params[i])]),
                  get_type_descriptor(spec.return_type))

\* "%-42s" % s
FuncWidth == 42

ljust(s, width) == s \o [i \in 1..(width - Len(s)) |-> " "]

\* the fixed lines of the function template (lines 289-305)
TitleOpen == "\n/*-------------------------------------------/\n/ "

TitleClose == " /\n/-------------------------------------------*/\n"

DeclBanner == " {\n                                        /* Declarations */\n"

InputBanner == "\n                                        /* Convert input */\n"

CallBanner == "\n                                        /* Call igraph */\n"

OutputBanner == "\n                                        /* Convert output */\n"

Epilogue == "\n\n  UNPROTECT(1);\n  return(result);\n}\n"

\* line 269, errors="error": a parameter whose type has no entry in the type
\* table makes the check raise
check_types_of_function(desc) ==
    \A i \in 1..Len(desc.params) : desc.params[i].type \in TypeNames

\* a generator that writes each chunk as soon as it is computed
RCcomposeStreaming(function, desc, inconv, outconv) ==
    IF ~inconv.ok
    THEN [ok |-> FALSE,
          out |-> <<TitleOpen>> \o ljust(function, FuncWidth) \o <<TitleClose>>
                  \o chunk_header(desc) \o <<DeclBanner>>
                  \o chunk_declaration(desc) \o <<InputBanner>>]
    ELSE IF ~outconv.ok
    THEN [ok |-> FALSE,
          out |-> <<TitleOpen>> \o ljust(function, FuncWidth) \o <<TitleClose>>
                  \o chunk_header(desc) \o <<DeclBanner>>
                  \o chunk_declaration(desc) \o <<InputBanner>>
                  \o inconv.text \o <<CallBanner>>
                  \o chunk_call(desc) \o <<OutputBanner>>]
    ELSE [ok |-> TRUE,
          out |-> <<TitleOpen>> \o ljust(function, FuncWidth) \o <<TitleClose>>
                  \o chunk_header(desc) \o <<DeclBanner>>
                  \o chunk_declaration(desc) \o <<InputBanner>>
                  \o inconv.text \o <<CallBanner>>
                  \o chunk_call(desc) \o <<OutputBanner>>
                  \o outconv.text \o <<Epilogue>>]

\* lines 278-309: the chunks are all computed, then put in the template and
\* written in one out.write
RCcompose(function, desc, inconv, outconv) ==
    IF ~inconv.ok \/ ~outconv.ok THEN [ok |-> FALSE, out |-> <<>>]
    ELSE [ok |-> TRUE,
          out |-> <<TitleOpen>> \o ljust(function, FuncWidth) \o <<TitleClose>>
                  \o chunk_header(desc) \o <<DeclBanner>>
                  \o chunk_declaration(desc) \o <<InputBanner>>
                  \o inconv.text \o <<CallBanner>>
                  \o chunk_call(desc) \o <<OutputBanner>>
                  \o outconv.text \o <<Epilogue>>]

\* RCCodeGenerator.generate_function: the text it writes, and whether it
\* returns (ok) or raises before writing
RCgenerate_function(function, desc) ==
    IF ~check_types_of_function(desc) THEN [ok |-> FALSE, out |-> <<>>]
    ELSE RCcompose(function, desc, chunk_inconv(desc), chunk_outconv(desc))

\* ------------------------------------------------------ RInitCodeGenerator
\* _count_arguments: (in_args, out_args)
RECURSIVE count_arguments(_)
count_arguments(params) ==
    IF params = <<>> THEN <<0, 0>>
    ELSE LET rest == count_arguments(Tail(params))
             param == Head(params)
         IN  IF param.type \in {"DEPRECATED", "NULL"} THEN rest
             ELSE << rest[1] + (IF is_input(param) THEN 1 ELSE 0),
                     rest[2] + (IF is_output(param) THEN 1 ELSE 0) >>

generate_declaration(desc) ==
    LET num_r_args == count_arguments(desc.params)[1]
    IN  <<"extern SEXP R_">> \o desc.name \o <<"(">>
        \o join(<<", ">>, [i \in 1..num_r_args |-> <<"SEXP">>]) \o <<");\n">>

\* "{:>2}".format(n) and " " * (50 - len(name))
NumWidth == 2

PadWidth == 50

rjust(s, width) == [i \in 1..(width - Len(s)) |-> " "] \o s

RInitgenerate_function(desc) ==
    LET num_r_args == rjust(str(count_arguments(desc.params)[1]), NumWidth)
        padding == [i \in 1..(PadWidth - Len(desc.name)) |-> " "]
    IN  <<"    {\"R_">> \o desc.name \o <<"\",">> \o padding \o <<"(DL_FUNC) &R_">>
        \o desc.name \o <<",">> \o padding \o num_r_args \o <<"},\n">>

\* ------------------------------------------------------ the state machine
VARIABLES
    desc,     \* the FunctionDescriptor the generators share
    rrOut,    \* what each RRCodeGenerator.generate_function call wrote
    rrLog,    \* the diagnostics RRCodeGenerator logged
    rcOut,    \* what each RCCodeGenerator.generate_function call wrote
    riDecl,   \* what each RInitCodeGenerator.generate_declaration call wrote
    riFunc    \* what each RInitCodeGenerator.generate_function call wrote

vars == <<desc, rrOut, rrLog, rcOut, riDecl, riFunc>>

\* the names of a function's parameters, by position, and of dependencies
ParamName(i) ==
    CASE i = 1 -> <<"g">>
      [] i = 2 -> <<"a", "_", "b">>
      [] OTHER -> <<"p">> \o str(i)

DepName(k) == <<"n", "_">> \o str(k)

\* a parameter list: position i draws (type, mode, default, number of
\* dependencies) from choices
Param(i, c) ==
    [name |-> ParamName(i), type |-> c[1], mode |-> c[2], default |-> c[3],
     dependencies |-> [k \in 1..c[4] |-> DepName(k)]]

ParamLists(choices) ==
    UNION {{[i \in 1..n |-> Param(i, cs[i])] : cs \in [1..n -> choices]} : n \in 0..MaxParams}

\* Defaults only show on types with a DEFAULT mapping, dependencies only on
\* types whose templates name one
Choices(types) ==
    {c \in types \X Modes \X {None, "ONE"} \X (0..MaxDeps) :
        /\ c[3] # None => "DEFAULT" \in DOMAIN TypeTable[c[1]]
        /\ c[4] # 0 => c[1] = "DEPS"}

\* function-level metadata: nothing, the legacy keys, the R namespace, a
\* GATTR-R without " IS "
aGattr == <<"n", "a", "m", "e", " ", "I", "S", " ", "x", ",", "k", " ", "I", "S", " ", "v">>

ObjChoices ==
    { [k \in {} |-> <<>>],
      ("GATTR-R" :> Str(aGattr)) @@ ("GATTR-PARAM-R" :> <<"a", "_", "b", ",", " ", "g">>)
          @@ ("CLASS-R" :> <<"i", "g">>) @@ ("PP-R" :> <<"p", "p">>),
      ("CLASS-R" :> <<"i", "g">>),
      ("R" :> (("GATTR" :> Dict(<< <<<<"k">>, <<"v">>>> >>)) @@ ("PP" :> <<"p", "p">>)))
          @@ ("CLASS-R" :> <<"i", "g">>),
      ("GATTR-R" :> Str(<<"n", "a", "m", "e">>)) }

Descriptors(types, rtypes, objs) ==
    {[name |-> <<"f">>, rename |-> rn, is_internal |-> int, return_type |-> rt,
      params |-> ps, obj |-> obj] :
        rn \in {None}, int \in {FALSE}, rt \in rtypes,
        ps \in ParamLists(Choices(types)), obj \in objs}

InitWith(descs) ==
    /\ desc \in descs
    /\ rrOut = <<>>
    /\ rrLog = <<>>
    /\ rcOut = <<>>
    /\ riDecl = <<>>
    /\ riFunc = <<>>

Init == InitWith(Descriptors(TypeNames, {"VECTOR"}, ObjChoices))

calls == Len(rrOut) + Len(rcOut) + Len(riDecl) + Len(riFunc)

Call(ok, out) == [ok |-> ok, out |-> out]

\* the effect of one RRCodeGenerator.generate_function call that left r
RRLeaves(r) ==
    /\ rrOut' = Append(rrOut, Call(r.ok, r.out))
    /\ rrLog' = rrLog \o r.log
    /\ desc' = [desc EXCEPT !.obj = r.obj]

RRGenerate ==
    /\ calls < MaxCalls
    /\ RRLeaves(RRgenerate_function(desc.name, desc))
    /\ UNCHANGED <<rcOut, riDecl, riFunc>>

RCLeaves(r) == rcOut' = Append(rcOut, Call(r.ok, r.out))

RCGenerate ==
    /\ calls < MaxCalls
    /\ RCLeaves(RCgenerate_function(desc.name, desc))
    /\ UNCHANGED <<desc, rrOut, rrLog, riDecl, riFunc>>

RInitDeclaration ==
    /\ calls < MaxCalls
    /\ riDecl' = Append(riDecl, generate_declaration(desc))
    /\ UNCHANGED <<desc, rrOut, rrLog, rcOut, riFunc>>

RInitGenerate ==
    /\ calls < MaxCalls
    /\ riFunc' = Append(riFunc, RInitgenerate_function(desc))
    /\ UNCHANGED <<desc, rrOut, rrLog, rcOut, riDecl>>

Next == RRGenerate \/ RCGenerate \/ RInitDeclaration \/ RInitGenerate

Spec == Init /\ [][Next]_vars

\* The C shim alone: the types that differ in CALL and OUTCONV
InitShim ==
    InitWith(Descriptors({"PLAIN", "VECTOR", "REAL", "NOCALL", "PARTIAL"},
                         {"PLAIN"}, {[k \in {} |-> <<>>]}))

SpecShim == InitShim /\ [][Next]_vars

\* Repeated generation: every kind of function-level metadata
InitTwice == InitWith(Descriptors({"PLAIN", "VECTOR"}, {"PLAIN", "VECTOR"}, ObjChoices))

SpecTwice == InitTwice /\ [][Next]_vars

\* The C shim and the registration on descriptors the strict type check
\* rejects, next to ones whose chunks raise and ones that generate
UnknownType == "UNKNOWN"

StrictChoices ==
    Choices({"PLAIN", "INT"}) \cup {<<UnknownType, m, None, 0>> : m \in Modes}

InitStrict ==
    InitWith({[name |-> <<"f">>, rename |-> None, is_internal |-> FALSE,
               return_type |-> rt, params |-> ps, obj |-> [k \in {} |-> <<>>]] :
                  rt \in {"PLAIN", "REAL"}, ps \in ParamLists(StrictChoices)})

NextStrict == RCGenerate \/ RInitDeclaration \/ RInitGenerate

SpecStrict == InitStrict /\ [][NextStrict]_vars

\* ------------------------------------------------- reading the output back
\* the first position of an element, 0 when it is absent
indexOf(s, tok) ==
    IF \E i \in 1..Len(s) : s[i] = tok
    THEN CHOOSE i \in 1..Len(s) : s[i] = tok /\ \A j \in 1..(i - 1) : s[j] # tok
    ELSE 0

\* the text between the first `open` and the first `close` after it
between(s, open, close) ==
    LET a == indexOf(s, open)
        rest == SubSeq(s, a + 1, Len(s))
        b == indexOf(rest, close)
    IN  IF a = 0 \/ b = 0 THEN <<>> ELSE SubSeq(rest, 1, b - 1)

\* the entries of a ", "-separated list
entries(list) == IF list = <<>> THEN <<>> ELSE split(list, <<", ">>, -1)

count(s, tok) == Cardinality({i \in 1..Len(s) : s[i] = tok})

\* the parameters of the R function's signature, the SEXP parameters of the
\* shim's signature, the arguments of the shim's native call
RSignature(out) == entries(between(out, " <- function(", ") {\n"))

CSignature(out) == between(out, "SEXP R_", DeclBanner)

CCallArguments(out) ==
    entries(between(between(out, CallBanner, OutputBanner), "(", ");\n"))

rule(param, phase) == TypeTable[param.type][phase]

hasRule(param, phase) == phase \in DOMAIN TypeTable[param.type]

pI1 == <<"%", "I", "1", "%">>

\* the templates a phase can select for the parameter
templateOf(param, phase) ==
    IF ~hasRule(param, phase) THEN <<>>
    ELSE IF rule(param, phase).kind = "str" THEN rule(param, phase).s
    ELSE IF param.mode \in DOMAIN rule(param, phase).d THEN rule(param, phase).d[param.mode]
    ELSE <<>>

Params == {desc.params[i] : i \in 1..Len(desc.params)}

\* C1: a parameter declared with no dependencies whose template names %I1%
\* is reported by the R wrapper, and no generator writes the literal %I1%.
C1_ResidualReported ==
    \A p \in Params :
        (/\ p.dependencies = <<>>
         /\ \E ph \in {"HEADER", "INCONV", "CALL", "OUTCONV"} :
                contains(templateOf(p, ph), pI1))
        => /\ \A i \in 1..Len(rrOut) :
                  /\ ~contains(rrOut[i].out, pI1)
                  /\ \E k \in 1..Len(rrLog) : rrLog[k].pname = p.name
           /\ \A i \in 1..Len(rcOut) : ~contains(rcOut[i].out, pI1)

\* C2: the signature holds exactly one entry per input parameter whose type
\* does not define HEADER as the empty string: a hidden one has no entry.
shown(p) == is_input(p) /\ ~(hasRule(p, "HEADER") /\ rule(p, "HEADER").s = <<>>)

C2_HiddenNotInSignature ==
    LET visible == Cardinality({i \in 1..Len(desc.params) : shown(desc.params[i])})
    IN  /\ \A i \in 1..Len(rrOut) : Len(RSignature(rrOut[i].out)) = visible
        /\ \A i \in 1..Len(rcOut) :
              rcOut[i].ok => count(CSignature(rcOut[i].out), "SEXP ") = visible

\* C3: the native call's arguments are, in parameter order, c_<name> for a
\* parameter whose type has no CALL rule, nothing for one whose CALL is empty
\* for its mode, and the resolved CALL template otherwise.
expectedArgument(p) ==
    IF ~hasRule(p, "CALL") THEN c_(p.name)
    ELSE replace(replace(templateOf(p, "CALL"), pC, c_(p.name)), pI, p.name)

RECURSIVE expectedArguments(_)
expectedArguments(params) ==
    IF params = <<>> THEN <<>>
    ELSE (IF expectedArgument(Head(params)) = <<>> THEN <<>>
          ELSE <<expectedArgument(Head(params))>>)
         \o expectedArguments(Tail(params))

C3_CallArguments ==
    \A i \in 1..Len(rcOut) :
        rcOut[i].ok => CCallArguments(rcOut[i].out) = expectedArguments(desc.params)

C3_Witness ==
    /\ Len(rcOut) > 0 /\ rcOut[1].ok
    /\ Len(desc.params) = 2
    /\ desc.params[1].type = "NOCALL" /\ desc.params[1].mode = "OUT"
    /\ desc.params[2].type = "PLAIN" /\ desc.params[2].mode = "IN"
    /\ CCallArguments(rcOut[1].out) = <<c_(desc.params[2].name)>>

\* the text after the k-th occurrence of an element
afterNth(s, tok, k) ==
    LET i == CHOOSE j \in 1..Len(s) : s[j] = tok /\ count(SubSeq(s, 1, j), tok) = k
    IN  SubSeq(s, i, Len(s))

outputNames(params) ==
    LET outs == SelectSeq(params, LAMBDA p : p.mode \in {"OUT", "INOUT"})
    IN  [i \in 1..Len(outs) |-> outs[i].name]

SetElt == "  SET_VECTOR_ELT(result, "

SetName == "  SET_STRING_ELT(names, "

\* C4: with two or more output parameters the shim fills slot i of the
\* result and slot i of the names from the i-th output parameter, in
\* parameter order, and sizes both lists by the number of output parameters.
C4_NamedListAligned ==
    LET names == outputNames(desc.params)
        n == Len(names)
    IN  \A c \in 1..Len(rcOut) :
            (rcOut[c].ok /\ n >= 2) =>
                LET out == rcOut[c].out
                IN  /\ count(out, SetElt) = n
                    /\ count(out, SetName) = n
                    /\ between(out, "  PROTECT(result=NEW_LIST(", "));") = str(n)
                    /\ between(out, "  PROTECT(names=NEW_CHARACTER(", "));") = str(n)
                    /\ \A k \in 1..n :
                          /\ between(afterNth(out, SetElt, k), SetElt, ", ") = str(k - 1)
                          /\ between(afterNth(out, SetElt, k), ", ", ");") = names[k]
                          /\ between(afterNth(out, SetName, k), SetName,
                                     ", CREATE_STRING_VECTOR(\"") = str(k - 1)
                          /\ between(afterNth(out, SetName, k),
                                     ", CREATE_STRING_VECTOR(\"", "\"));") = names[k]

C4_Witness ==
    /\ Len(rcOut) > 0 /\ rcOut[1].ok
    /\ Len(desc.params) = 2
    /\ desc.params[1].mode = "INOUT" /\ desc.params[2].mode = "OUT"
    /\ count(rcOut[1].out, SetName) = 2

\* C5: a parameter with dependencies [a, b] and the template
\* "%I1% and %C2%" has it resolved to "<a's display name> and c_<b>" in the
\* output of both generators.
C5_DependenciesResolved ==
    \A p \in Params :
        (/\ Len(p.dependencies) >= 2
         /\ templateOf(p, "OUTCONV") = tDeps)
        => LET a == p.dependencies[1]
               b == p.dependencies[2]
           IN  /\ \A i \in 1..Len(rrOut) :
                     rrOut[i].ok =>
                         contains(rrOut[i].out,
                                  dotted(a) \o <<" ", "a", "n", "d", " ">> \o c_(b))
               /\ \A i \in 1..Len(rcOut) :
                     rcOut[i].ok =>
                         contains(rcOut[i].out, a \o <<" ", "a", "n", "d", " ">> \o c_(b))

\* C6: every call of a generator for the function writes the same text (and
\* ends the same way) as the first, also once the R namespace is installed.
C6_SameTextTwice ==
    /\ \A i \in 1..Len(rrOut) : rrOut[i] = rrOut[1]
    /\ \A i \in 1..Len(rcOut) : rcOut[i] = rcOut[1]

C6_Witness ==
    /\ Len(rrOut) = 2 /\ rrOut[2].ok
    /\ {"R", "GATTR-R", "PP-R"} \subseteq DOMAIN desc.obj
    /\ contains(rrOut[2].out, <<"  res <- ">> \o desc.obj["PP-R"] \o <<"(res)\n">>)

\* C7: no step changes the function descriptor.
C7_DescriptorUnchanged == [][desc' = desc]_vars

\* C8: the declaration and the DL_FUNC entry written for the function give
\* as many arguments as the shim's signature has SEXP parameters.
C8_RegistrationArity ==
    \A c \in 1..Len(rcOut) :
        rcOut[c].ok =>
            LET n == count(CSignature(rcOut[c].out), "SEXP ")
            IN  /\ \A i \in 1..Len(riDecl) : count(riDecl[i], "SEXP") = n
                /\ \A i \in 1..Len(riFunc) :
                      SubSeq(riFunc[i], Len(riFunc[i]) - NumWidth, Len(riFunc[i]) - 1)
                          = rjust(str(n), NumWidth)

\* C9: every diagnostic the R wrapper logs names a parameter of the
\* function with its type, and the function by its generated name.
C9_DiagnosticNamesFunction ==
    \A k \in 1..Len(rrLog) :
        /\ rrLog[k].fname = get_name_in_generated_code(desc)
        /\ \E p \in Params : p.name = rrLog[k].pname /\ p.type = rrLog[k].tname

\* C10: in INCONV, CALL and OUTCONV a rule keyed by mode gives the
\* template of the parameter's mode, a rule that is one template gives it
\* for every mode, and a rule without the mode, or no rule, gives nothing;
\* none of these makes a generator raise.
flat(p, phase) == hasRule(p, phase) /\ rule(p, phase).kind = "str"

resolvedC(p, phase) ==
    <<" ", " ">> \o replace(replace(templateOf(p, phase), pC, c_(p.name)), pI, p.name)

resolvedR(p, phase, self) == <<" ", " ">> \o replace(templateOf(p, phase), pI, self)

C10_SelectionPrecedence ==
    /\ \A i \in 1..Len(rcOut) :
          /\ rcOut[i].ok
          /\ CCallArguments(rcOut[i].out) = expectedArguments(desc.params)
          /\ \A p \in Params : \A ph \in {"INCONV", "OUTCONV"} :
                (templateOf(p, ph) # <<>> /\ p.dependencies = <<>>)
                => contains(rcOut[i].out, resolvedC(p, ph))
    /\ \A i \in 1..Len(rrOut) :
          /\ \/ rrOut[i].ok
             \/ ~graphAttributes(r_specOf(desc.obj)).ok
             \/ \E p \in Params : is_input(p) /\ hasRule(p, "CALL") /\ ~flat(p, "CALL")
          /\ \A p \in Params :
                (rrOut[i].ok /\ p.dependencies = <<>>) =>
                    /\ (is_input(p) /\ templateOf(p, "INCONV") # <<>>)
                       => contains(rrOut[i].out, resolvedR(p, "INCONV", dotted(p.name)))
                    /\ templateOf(p, "OUTCONV") # <<>>
                       => contains(rrOut[i].out,
                                   resolvedR(p, "OUTCONV",
                                             IF Len(outputNames(desc.params)) <= 1
                                             THEN <<"r", "e", "s">>
                                             ELSE <<"r", "e", "s", "$">> \o p.name))
\* the whole template, from the title to the epilogue, every banner in place
wholeText(out) ==
    /\ Len(out) > 0
    /\ out[1] = TitleOpen
    /\ out[Len(out)] = Epilogue
    /\ count(out, TitleOpen) = 1
    /\ count(out, Epilogue) = 1
    /\ 0 < indexOf(out, TitleClose)
    /\ indexOf(out, TitleClose) < indexOf(out, DeclBanner)
    /\ indexOf(out, DeclBanner) < indexOf(out, InputBanner)
    /\ indexOf(out, InputBanner) < indexOf(out, CallBanner)
    /\ indexOf(out, CallBanner) < indexOf(out, OutputBanner)

\* C11: RCCodeGenerator.generate_function writes either the complete function
\* text or nothing: a call that raises, in the strict type check or in a
\* chunk, leaves the output stream as it was, and a call that returns has
\* written the whole template, from the title to the epilogue, with every
\* banner in its place.
C11_CompleteOrNothing ==
    \A i \in 1..Len(rcOut) :
        /\ ~rcOut[i].ok => rcOut[i].out = <<>>
        /\ rcOut[i].ok => wholeText(rcOut[i].out)
        /\ (\E k \in 1..Len(desc.params) : desc.params[k].type = UnknownType)
               => ~rcOut[i].ok

\* a chunk raised after the header and the declarations were computed, and a
\* second call on the same descriptor found the stream as the first left it
C11_Witness ==
    /\ Len(rcOut) = MaxCalls
    /\ \A k \in 1..Len(desc.params) : desc.params[k].type # UnknownType
    /\ \E k \in 1..Len(desc.params) : is_input(desc.params[k])
    /\ \A i \in 1..Len(rcOut) : ~rcOut[i].ok /\ rcOut[i].out = <<>>

====
